---- MODULE Spec2Model ----
(***************************************************************************)
(* ristei: conversion of RIS records to TEI biblStruct elements.           *)
(*                                                                         *)
(* Python strings are modelled as sequences of one-character strings, so   *)
(* that split, strip, int() and the regular-expression substitution are    *)
(* computed character by character.  Two characters that cannot be written *)
(* in a TLA+ string are named: RSQUO (U+2019) and NDASH (U+2013).           *)
(***************************************************************************)
EXTENDS Integers, Sequences, FiniteSets, TLC

VARIABLES
    \* TeiFile.parse / TeiFile.toXML
    pc,         \* position of main(): "parse" (between files), "file", "toXML", "done", "aborted"
    fileNo,     \* number of source files taken from the argument list so far
    input,      \* history: per opened file, the raw lines read so far
    kv_pairs,   \* parse's local accumulation list
    records,    \* TeiFile.records
    calls,      \* history: the arguments of every add_record call
    top,        \* children of the listBibl document element
    nextRec,    \* index of the next record toXML's loop renders
    exc,        \* uncaught exception that ended the run, or "none"
    log,        \* logging / print output of the run
    \* one bibliographic record
    item_kv,    \* field pairs handed to add_record
    item,       \* the constructed Book/Journal, or NoItem
    frag,       \* outcome of the last call made on it
    fcall,      \* the createElementFrom call made on it, or NoCall
    ipc,        \* "new", "constructed", "skipped", "rendered", "field", "raised"
    \* one RISDate
    dstr,       \* the RIS date string
    dobj,       \* the RISDate object
    dval,       \* result of toValue
    dattr,      \* result of toAttr
    dpc,        \* "new", "constructed", "valued", "done", "raised"
    \* one person name
    pname,      \* the name string
    pres,       \* result of BiblioItem.person
    ppc         \* "new", "done", "raised"

pipeVars == <<pc, fileNo, input, kv_pairs, records, calls, top, nextRec, exc, log>>
itemVars == <<item_kv, item, frag, fcall, ipc>>
dateVars == <<dstr, dobj, dval, dattr, dpc>>
persVars == <<pname, pres, ppc>>
vars == <<pipeVars, itemVars, dateVars, persVars>>

----------------------------------------------------------------------------
(* Python str primitives *)

RSQUO == "rsquo"
NDASH == "ndash"
Whitespace == {" ", "\t", "\n"}
Digits == {"0", "1", "2", "3", "4", "5", "6", "7", "8", "9"}

\* stands for Python's None where a str is expected
NoneStr == <<"None">>

\* truth value of an Optional[str]
Truthy(s) == s # NoneStr /\ s # <<>>

\* str.strip()
RECURSIVE LStrip(_)
LStrip(s) == IF s # <<>> /\ Head(s) \in Whitespace THEN LStrip(Tail(s)) ELSE s

RECURSIVE RStrip(_)
RStrip(s) ==
    IF s # <<>> /\ s[Len(s)] \in Whitespace THEN RStrip(SubSeq(s, 1, Len(s) - 1)) ELSE s

Strip(s) == RStrip(LStrip(s))

\* index of the first occurrence of sep in s, 0 if there is none
Find(s, sep) ==
    LET hits == {i \in 1..(Len(s) - Len(sep) + 1) : SubSeq(s, i, i + Len(sep) - 1) = sep}
    IN  IF hits = {} THEN 0 ELSE CHOOSE i \in hits : \A j \in hits : i <= j

\* str.split(sep)
RECURSIVE Split(_, _)
Split(s, sep) ==
    LET i == Find(s, sep)
    IN  IF i = 0 THEN <<s>>
        ELSE <<SubSeq(s, 1, i - 1)>> \o Split(SubSeq(s, i + Len(sep), Len(s)), sep)

DigitVal(c) ==
    CASE c = "0" -> 0 [] c = "1" -> 1 [] c = "2" -> 2 [] c = "3" -> 3 [] c = "4" -> 4
      [] c = "5" -> 5 [] c = "6" -> 6 [] c = "7" -> 7 [] c = "8" -> 8 [] c = "9" -> 9

RECURSIVE StripZeros(_)
StripZeros(s) == IF s # <<>> /\ Head(s) = "0" THEN StripZeros(Tail(s)) ELSE s

RECURSIVE DigitsValue(_)
DigitsValue(s) == IF s = <<>> THEN 0 ELSE DigitsValue(SubSeq(s, 1, Len(s) - 1)) * 10 + DigitVal(s[Len(s)])

\* lexicographic a > b for digit strings of equal length
RECURSIVE DigitsGreater(_, _)
DigitsGreater(a, b) ==
    IF a = <<>> THEN FALSE
    ELSE IF DigitVal(Head(a)) # DigitVal(Head(b)) THEN DigitVal(Head(a)) > DigitVal(Head(b))
    ELSE DigitsGreater(Tail(a), Tail(b))

\* INT_MAX of the C int that datetime.date converts its arguments to
CIntMaxDigits == <<"2", "1", "4", "7", "4", "8", "3", "6", "4", "7">>

\* int(s): surrounding whitespace and one sign are accepted, then decimal digits.
\* big: the magnitude does not fit a C int; val is exact when big is FALSE.
PyInt(s) ==
    LET t    == Strip(s)
        neg  == t # <<>> /\ Head(t) = "-"
        body == IF t # <<>> /\ Head(t) \in {"-", "+"} THEN Tail(t) ELSE t
        sig  == StripZeros(body)
        big  == \/ Len(sig) > Len(CIntMaxDigits)
                \/ Len(sig) = Len(CIntMaxDigits) /\ DigitsGreater(sig, CIntMaxDigits)
    IN  IF body = <<>> \/ \E i \in 1..Len(body) : body[i] \notin Digits
        THEN [exc |-> "ValueError", big |-> FALSE, val |-> 0]
        ELSE [exc |-> "none", big |-> big,
              val |-> IF big THEN 0 ELSE IF neg THEN 0 - DigitsValue(sig) ELSE DigitsValue(sig)]

MonthNames ==
    <<<<"J", "a", "n", "u", "a", "r", "y">>,
     <<"F", "e", "b", "r", "u", "a", "r", "y">>,
     <<"M", "a", "r", "c", "h">>,
     <<"A", "p", "r", "i", "l">>,
     <<"M", "a", "y">>,
     <<"J", "u", "n", "e">>,
     <<"J", "u", "l", "y">>,
     <<"A", "u", "g", "u", "s", "t">>,
     <<"S", "e", "p", "t", "e", "m", "b", "e", "r">>,
     <<"O", "c", "t", "o", "b", "e", "r">>,
     <<"N", "o", "v", "e", "m", "b", "e", "r">>,
     <<"D", "e", "c", "e", "m", "b", "e", "r">>>>

\* datetime.date(year, month, 1).strftime('%B')
MonthName(y, m) ==
    IF y.big \/ m.big THEN [exc |-> "OverflowError", name |-> <<>>]
    ELSE IF y.val < 1 \/ y.val > 9999 \/ m.val < 1 \/ m.val > 12
         THEN [exc |-> "ValueError", name |-> <<>>]
    ELSE [exc |-> "none", name |-> MonthNames[m.val]]

----------------------------------------------------------------------------
(* class RISDate *)

NoDate == [year |-> NoneStr, month |-> NoneStr, season |-> NoneStr]

RISDate_init(value) ==
    LET split_date == Split(value, <<"/">>)
        year       == split_date[1]
    IN  IF value = <<>> THEN [exc |-> "ValueError", obj |-> NoDate]
        ELSE IF year = <<>> THEN [exc |-> "ValueError", obj |-> NoDate]
        ELSE [exc |-> "none",
              obj |-> [year   |-> year,
                       month  |-> IF Len(split_date) >= 2 THEN split_date[2] ELSE NoneStr,
                       season |-> IF Len(split_date) >= 4 THEN split_date[4] ELSE NoneStr]]

\* toValue with the month tested before the season
toValue_monthFirst(d) ==
    IF Truthy(d.month) THEN
        LET y == PyInt(d.year)
            m == PyInt(d.month)
            n == MonthName(y, m)
        IN  IF y.exc # "none" THEN [exc |-> y.exc, str |-> <<>>]
            ELSE IF m.exc # "none" THEN [exc |-> m.exc, str |-> <<>>]
            ELSE IF n.exc # "none" THEN [exc |-> n.exc, str |-> <<>>]
            ELSE [exc |-> "none", str |-> n.name \o <<" ">> \o d.year]
    ELSE IF Truthy(d.season) THEN [exc |-> "none", str |-> d.season \o <<" ">> \o d.year]
    ELSE [exc |-> "none", str |-> d.year]

toValue(d) ==
    IF Truthy(d.season) THEN [exc |-> "none", str |-> d.season \o <<" ">> \o d.year]
    ELSE IF Truthy(d.month) THEN
        LET y == PyInt(d.year)
            m == PyInt(d.month)
            n == MonthName(y, m)
        IN  IF y.exc # "none" THEN [exc |-> y.exc, str |-> <<>>]
            ELSE IF m.exc # "none" THEN [exc |-> m.exc, str |-> <<>>]
            ELSE IF n.exc # "none" THEN [exc |-> n.exc, str |-> <<>>]
            ELSE [exc |-> "none", str |-> n.name \o <<" ">> \o d.year]
    ELSE [exc |-> "none", str |-> d.year]

toAttr(d) ==
    IF Truthy(d.month) THEN d.year \o <<"-">> \o d.month ELSE d.year

----------------------------------------------------------------------------
(* xml.dom.minidom nodes: an element has a name, attributes in the order   *)
(* they were set, and child nodes; a text node has name "#text".           *)

createElement(elementName) ==
    [name |-> elementName, attrs |-> <<>>, text |-> <<>>, kids |-> <<>>]

createTextNode(value) ==
    [name |-> "#text", attrs |-> <<>>, text |-> value, kids |-> <<>>]

\* Python's None where an Optional[Element] is expected
None == [name |-> "None", attrs |-> <<>>, text |-> <<>>, kids |-> <<>>]

appendChild(parent, child) == [parent EXCEPT !.kids = Append(@, child)]

setAttribute(el, attname, value) ==
    [el EXCEPT !.attrs = Append(@, [k |-> attname, v |-> value])]

createTextElement(elementName, value) ==
    appendChild(createElement(elementName), createTextNode(value))

\* The outcome of a method that builds an element: the element (or None),
\* the exception it raised ("none" if it returned), the log lines it wrote.
Returns(el) == [el |-> el, exc |-> "none", log |-> <<>>]
Raises(e, lg) == [el |-> None, exc |-> e, log |-> lg]

\* "x = self.f(); if x: root.appendChild(x)" continued from outcome b
AppendIf(b, r) ==
    IF b.exc # "none" THEN b
    ELSE IF r.exc # "none" THEN Raises(r.exc, b.log \o r.log)
    ELSE [el  |-> IF r.el # None THEN appendChild(b.el, r.el) ELSE b.el,
          exc |-> "none",
          log |-> b.log \o r.log]

----------------------------------------------------------------------------
(* class BiblioItem *)

AU == <<"A", "U">>
A1 == <<"A", "1">>
A3 == <<"A", "3">>
TI == <<"T", "I">>
T1 == <<"T", "1">>
T2 == <<"T", "2">>
T3 == <<"T", "3">>
JO == <<"J", "O">>
SN == <<"S", "N">>
DO == <<"D", "O">>
VL == <<"V", "L">>
IS == <<"I", "S">>
SP == <<"S", "P">>
EP == <<"E", "P">>
CY == <<"C", "Y">>
PB == <<"P", "B">>
Y1 == <<"Y", "1">>
PY == <<"P", "Y">>
TY == <<"T", "Y">>
ER == <<"E", "R">>

NoItem == [kind |-> "None", authors |-> <<>>, editors |-> <<>>, values |-> <<>>]

\* [v.strip() for k, v in kv_pairs if k in keys]
RECURSIVE StrippedValuesOf(_, _)
StrippedValuesOf(kv, keys) ==
    IF kv = <<>> THEN <<>>
    ELSE (IF Head(kv)[1] \in keys THEN <<Strip(Head(kv)[2])>> ELSE <<>>)
         \o StrippedValuesOf(Tail(kv), keys)

\* {k: v.strip() for k, v in kv_pairs}: a later pair replaces an earlier one
ValuesDict(kv) ==
    [k \in {kv[i][1] : i \in 1..Len(kv)} |->
        LET last == CHOOSE i \in 1..Len(kv) :
                        /\ kv[i][1] = k
                        /\ \A j \in 1..Len(kv) : kv[j][1] = k => j <= i
        IN  Strip(kv[last][2])]

\* BiblioItem.__init__: unpacking "for k, v in kv_pairs" needs two-item pairs
BiblioItem_init(kind, kv) ==
    IF \E i \in 1..Len(kv) : Len(kv[i]) # 2
    THEN [exc |-> "ValueError", obj |-> NoItem]
    ELSE [exc |-> "none",
          obj |-> [kind    |-> kind,
                   authors |-> StrippedValuesOf(kv, {AU, A1}),
                   editors |-> StrippedValuesOf(kv, {A3}),
                   values  |-> ValuesDict(kv)]]

\* dumb_apostrophes = re.compile("(\S)'([std]|ll)", re.I); sub("\\1’\\2", value)
\* scans left to right and resumes after each match.
RECURSIVE ApostropheSub(_, _)
ApostropheSub(s, i) ==
    LET n     == Len(s)
        lead  == i + 2 <= n /\ s[i] \notin Whitespace /\ s[i + 1] = "'"
        one   == lead /\ s[i + 2] \in {"s", "t", "d", "S", "T", "D"}
        two   == lead /\ i + 3 <= n /\ s[i + 2] \in {"l", "L"} /\ s[i + 3] \in {"l", "L"}
    IN  IF i > n THEN <<>>
        ELSE IF one THEN <<s[i], RSQUO, s[i + 2]>> \o ApostropheSub(s, i + 3)
        ELSE IF two THEN <<s[i], RSQUO, s[i + 2], s[i + 3]>> \o ApostropheSub(s, i + 4)
        ELSE <<s[i]>> \o ApostropheSub(s, i + 1)

fix_dumb_typography(value) == ApostropheSub(value, 1)

\* createElementFrom with the candidate list walked from its end
RECURSIVE createElementFrom_lastCandidate(_, _, _, _)
createElementFrom_lastCandidate(self, elementName, keys, attrs) ==
    IF keys = <<>> THEN None
    ELSE IF keys[Len(keys)] \in DOMAIN self.values THEN
        LET value   == fix_dumb_typography(self.values[keys[Len(keys)]])
            element == createTextElement(elementName, value)
        IN  IF attrs # <<>> THEN setAttribute(element, attrs[1], attrs[2]) ELSE element
    ELSE createElementFrom_lastCandidate(self, elementName, SubSeq(keys, 1, Len(keys) - 1), attrs)

RECURSIVE createElementFrom(_, _, _, _)
createElementFrom(self, elementName, keys, attrs) ==
    IF keys = <<>> THEN None
    ELSE IF Head(keys) \in DOMAIN self.values THEN
        LET value   == fix_dumb_typography(self.values[Head(keys)])
            element == createTextElement(elementName, value)
        IN  IF attrs # <<>> THEN setAttribute(element, attrs[1], attrs[2]) ELSE element
    ELSE createElementFrom(self, elementName, Tail(keys), attrs)

title(self) == createElementFrom(self, "title", <<TI, T1>>, <<>>)

series_title(self) == createElementFrom(self, "title", <<T2, T3>>, <<"level", <<"s">>>>)

pub_place(self) == createElementFrom(self, "pubPlace", <<CY>>, <<>>)

publisher(self) == createElementFrom(self, "publisher", <<PB>>, <<>>)

series(self) ==
    LET t == series_title(self)
    IN  IF t # None THEN appendChild(createElement("series"), t) ELSE None

\* person with the surname appended before the forename
person_surnameFirst(name) ==
    LET names == Split(name, <<",">>)
    IN  IF Len(names) < 2 THEN Raises("IndexError", <<>>)
        ELSE LET surname  == createTextElement("surname", Strip(names[1]))
                 forename == createTextElement("forename", Strip(names[2]))
             IN  Returns(appendChild(appendChild(createElement("persName"), surname), forename))

person(name) ==
    LET names == Split(name, <<",">>)
    IN  IF Len(names) < 2 THEN Raises("IndexError", <<>>)
        ELSE LET surname  == createTextElement("surname", Strip(names[1]))
                 forename == createTextElement("forename", Strip(names[2]))
             IN  Returns(appendChild(appendChild(createElement("persName"), forename), surname))

authorship(name) == AppendIf(Returns(createElement("author")), person(name))

editorship(name) == AppendIf(Returns(createElement("editor")), person(name))

date(self) ==
    LET d == IF Y1 \in DOMAIN self.values THEN self.values[Y1]
             ELSE IF PY \in DOMAIN self.values THEN self.values[PY]
             ELSE NoneStr
        ris_date == RISDate_init(d)
        v        == toValue(ris_date.obj)
        warning  == <<"warning: Unable to parse Imprint date">>
    IN  IF ~Truthy(d) THEN Returns(None)
        ELSE IF ris_date.exc = "ValueError" THEN [Returns(None) EXCEPT !.log = warning]
        ELSE IF v.exc = "ValueError" THEN [Returns(None) EXCEPT !.log = warning]
        ELSE IF v.exc # "none" THEN Raises(v.exc, <<>>)
        ELSE Returns(setAttribute(createTextElement("date", v.str), "when", toAttr(ris_date.obj)))

imprint(self) ==
    AppendIf(AppendIf(AppendIf(Returns(createElement("imprint")),
                               Returns(pub_place(self))),
                      Returns(publisher(self))),
             date(self))

\* "for name in self.authors: root.appendChild(self.authorship(name))"
RECURSIVE AppendAuthors(_, _)
AppendAuthors(b, names) ==
    IF names = <<>> THEN b
    ELSE AppendAuthors(AppendIf(b, authorship(Head(names))), Tail(names))

\* "for name in self.editors: root.appendChild(self.editorship(name))"
RECURSIVE AppendEditors(_, _)
AppendEditors(b, names) ==
    IF names = <<>> THEN b
    ELSE AppendEditors(AppendIf(b, editorship(Head(names))), Tail(names))

----------------------------------------------------------------------------
(* class Book *)

isbn(self) == createElementFrom(self, "idno", <<SN>>, <<"type", <<"I", "S", "B", "N">>>>)

\* The element that receives the series element in Book.monogr
\* ("series.appendChild(series)"), "none" when series() returned None.
Book_seriesParent(self) == IF series(self) # None THEN "series" ELSE "none"

\* "series = self.series(); if series: series.appendChild(series)" changes only
\* the local series element, which is dropped on return; root is returned
\* with the imprint as its last child.
Book_monogr(self) ==
    LET root    == Returns(createElement("monogr"))
        people  == AppendEditors(AppendAuthors(root, self.authors), self.editors)
        withIds == AppendIf(AppendIf(people, Returns(title(self))), Returns(isbn(self)))
    IN  AppendIf(withIds, imprint(self))

----------------------------------------------------------------------------
(* class Journal *)

\* doi_prefix = re.compile("DOI:\s*", re.I); sub("", value)
RECURSIVE SkipWhitespace(_, _)
SkipWhitespace(s, i) ==
    IF i <= Len(s) /\ s[i] \in Whitespace THEN SkipWhitespace(s, i + 1) ELSE i

RECURSIVE DoiPrefixSub(_, _)
DoiPrefixSub(s, i) ==
    IF i > Len(s) THEN <<>>
    ELSE IF /\ i + 3 <= Len(s)
            /\ s[i] \in {"D", "d"} /\ s[i + 1] \in {"O", "o"}
            /\ s[i + 2] \in {"I", "i"} /\ s[i + 3] = ":"
         THEN DoiPrefixSub(s, SkipWhitespace(s, i + 4))
    ELSE <<s[i]>> \o DoiPrefixSub(s, i + 1)

doi(self) ==
    IF DO \in DOMAIN self.values
    THEN setAttribute(createTextElement("idno", DoiPrefixSub(self.values[DO], 1)),
                      "type", <<"D", "O", "I">>)
    ELSE None

journal_title(self) == createElementFrom(self, "title", <<JO, T2>>, <<"level", <<"j">>>>)

volume(self) ==
    createElementFrom(self, "biblScope", <<VL>>, <<"unit", <<"v", "o", "l", "u", "m", "e">>>>)

issue(self) ==
    createElementFrom(self, "biblScope", <<IS>>, <<"unit", <<"i", "s", "s", "u", "e">>>>)

issn(self) == createElementFrom(self, "idno", <<SN>>, <<"type", <<"I", "S", "S", "N">>>>)

\* end_page stays unbound when SP has no "-" and EP is absent; reading it in
\* "if start_page and end_page" raises UnboundLocalError unless start_page is
\* empty and the "and" stops before it.
pages(self) ==
    LET sp         == self.values[SP]
        hasEP      == EP \in DOMAIN self.values
        split      == Split(sp, <<"-">>)
        start_page == IF hasEP THEN sp ELSE split[1]
        bound      == hasEP \/ Len(split) >= 2
        end_page   == IF hasEP THEN self.values[EP] ELSE split[2]
        warning    == IF bound THEN <<>> ELSE <<"warning: Unable to parse SP as range">>
        elem       == createTextElement("biblScope", start_page \o <<NDASH>> \o end_page)
    IN  IF SP \notin DOMAIN self.values THEN Returns(None)
        ELSE IF start_page = <<>> THEN [Returns(None) EXCEPT !.log = warning]
        ELSE IF ~bound THEN Raises("UnboundLocalError", warning)
        ELSE IF end_page = <<>> THEN Returns(None)
        ELSE Returns(setAttribute(setAttribute(setAttribute(elem,
                 "unit", <<"p", "a", "g", "e">>), "from", start_page), "to", end_page))

Journal_analytic(self) ==
    AppendIf(AppendIf(AppendIf(AppendAuthors(Returns(createElement("analytic")), self.authors),
                               Returns(title(self))),
                      Returns(doi(self))),
             Returns(issn(self)))

Journal_monogr(self) ==
    AppendIf(AppendIf(AppendIf(AppendIf(AppendIf(Returns(createElement("monogr")),
                                                 Returns(journal_title(self))),
                                        imprint(self)),
                               Returns(volume(self))),
                      Returns(issue(self))),
             pages(self))

----------------------------------------------------------------------------
(* BiblioItem.toXML with the overrides of the two subclasses *)

analytic(self) == IF self.kind = "Journal" THEN Journal_analytic(self) ELSE Returns(None)

monogr(self) == IF self.kind = "Journal" THEN Journal_monogr(self) ELSE Book_monogr(self)

\* toXML with monogr appended before analytic
BiblioItem_toXML_monogrFirst(self) ==
    AppendIf(AppendIf(AppendIf(Returns(createElement("biblStruct")),
                               monogr(self)),
                      analytic(self)),
             Returns(series(self)))

BiblioItem_toXML(self) ==
    AppendIf(AppendIf(AppendIf(Returns(createElement("biblStruct")),
                               analytic(self)),
                      monogr(self)),
             Returns(series(self)))

----------------------------------------------------------------------------
(* Start values of the four groups of variables *)

PipeInit ==
    /\ pc = "parse" /\ fileNo = 0 /\ input = <<>>
    /\ kv_pairs = <<>> /\ records = <<>> /\ calls = <<>>
    /\ top = <<>> /\ nextRec = 1 /\ exc = "none" /\ log = <<>>

ItemIdle ==
    /\ item_kv = <<>> /\ item = NoItem /\ frag = Returns(None)
    /\ fcall = [name |-> "None", keys |-> <<>>, attrs |-> <<>>] /\ ipc = "idle"

DateIdle == dstr = <<>> /\ dobj = NoDate /\ dval = <<>> /\ dattr = <<>> /\ dpc = "idle"

PersIdle == pname = <<>> /\ pres = Returns(None) /\ ppc = "idle"

----------------------------------------------------------------------------
(* SpecDate: RISDate applied to RIS date strings, in the order date() calls *)
(* it: constructor, toValue, toAttr.                                        *)

YearSegs   == {<<"2", "0", "2", "0">>, <<>>, <<"0">>, <<"2", "0", "x">>,
               <<"9", "9", "9", "9", "9", "9", "9", "9", "9", "9">>}
MonthSegs  == {<<>>, <<"5">>, <<"1", "2">>, <<"1", "3">>, <<"x">>, <<" ", "7">>}
DaySegs    == {<<>>, <<"1">>}
SeasonSegs == {<<>>, <<"S", "p", "r", "i", "n", "g">>}

DateStrings ==
    {y : y \in YearSegs}
    \cup {y \o <<"/">> \o m : y \in YearSegs, m \in MonthSegs}
    \cup {y \o <<"/">> \o m \o <<"/">> \o d : y \in YearSegs, m \in MonthSegs, d \in DaySegs}
    \cup {y \o <<"/">> \o m \o <<"/">> \o d \o <<"/">> \o s :
             y \in YearSegs, m \in MonthSegs, d \in DaySegs, s \in SeasonSegs}

DateInit ==
    /\ dstr \in DateStrings
    /\ dobj = NoDate /\ dval = <<>> /\ dattr = <<>> /\ dpc = "new"
    /\ PipeInit /\ ItemIdle /\ PersIdle

Date_construct ==
    /\ dpc = "new"
    /\ LET r == RISDate_init(dstr)
       IN  /\ dobj' = r.obj
           /\ dpc' = IF r.exc = "none" THEN "constructed" ELSE r.exc
    /\ UNCHANGED <<dstr, dval, dattr, pipeVars, itemVars, persVars>>

Date_toValue ==
    /\ dpc = "constructed"
    /\ LET r == toValue(dobj)
       IN  /\ dval' = r.str
           /\ dpc' = IF r.exc = "none" THEN "valued" ELSE r.exc
    /\ UNCHANGED <<dstr, dobj, dattr, pipeVars, itemVars, persVars>>

Date_toAttr ==
    /\ dpc = "valued"
    /\ dattr' = toAttr(dobj)
    /\ dpc' = "done"
    /\ UNCHANGED <<dstr, dobj, dval, pipeVars, itemVars, persVars>>

DateNext == Date_construct \/ Date_toValue \/ Date_toAttr

SpecDate == DateInit /\ [][DateNext]_vars

\* the segments year[/month[/day[/season]]] of the date string
DateSeg(n) ==
    LET segs == Split(dstr, <<"/">>) IN IF Len(segs) >= n THEN segs[n] ELSE <<>>

HasSeason == DateSeg(1) # <<>> /\ DateSeg(4) # <<>>

\* the year is a calendar year and the month, if given, a calendar month
CalendarDate ==
    LET y == PyInt(DateSeg(1))
        m == PyInt(DateSeg(2))
    IN  /\ y.exc = "none" /\ ~y.big /\ y.val \in 1..9999
        /\ DateSeg(2) # <<>> => (m.exc = "none" /\ ~m.big /\ m.val \in 1..12)

\* C7 as stated: for every valid RIS date string with a non-empty season,
\* with or without a month, toValue returns "{season} {year}" and toAttr
\* returns exactly "{year}".
C7_AsStated ==
    (dpc = "done" /\ HasSeason /\ CalendarDate) =>
        /\ dval = DateSeg(4) \o <<" ">> \o DateSeg(1)
        /\ dattr = DateSeg(1)

\* C7 amended: for every valid RIS date string with a non-empty season,
\* toValue returns "{season} {year}"; toAttr ignores the season and returns
\* "{year}" when the month segment is empty and "{year}-{month}" when a
\* month is given.
C7_SeasonDate ==
    /\ (dpc \in {"valued", "done"} /\ HasSeason) =>
            dval = DateSeg(4) \o <<" ">> \o DateSeg(1)
    /\ (dpc = "done" /\ HasSeason) =>
            dattr = IF DateSeg(2) = <<>> THEN DateSeg(1)
                    ELSE DateSeg(1) \o <<"-">> \o DateSeg(2)
    /\ (dpc \in {"ValueError", "OverflowError"}) => ~HasSeason

\* a date with year, month and season has been converted by both methods
C7_Witness == dpc = "done" /\ HasSeason /\ DateSeg(2) # <<>>

----------------------------------------------------------------------------
(* SpecPerson: BiblioItem.person, authorship and editorship on one name *)

Surnames  == {<<"S", "m", "i", "t", "h">>, <<" ", "S", "m", "i", "t", "h", " ">>, <<>>,
              <<"d", "e", " ", "V">>}
Forenames == {<<" ", "J", "o", "h", "n", " ", "A", ".">>, <<"J", "o", "h", "n">>, <<" ">>, <<>>}
Suffixes  == {<<" ", "J", "r">>, <<>>, <<" ", "I", "I", " ">>}

PersonNames ==
    {<<"P", "l", "a", "t", "o">>, <<>>, <<" ", "X", " ">>}
    \cup {s \o <<",">> \o f : s \in Surnames, f \in Forenames}
    \cup {s \o <<",">> \o f \o <<",">> \o x : s \in Surnames, f \in Forenames,
                                              x \in Suffixes}

PersInit ==
    /\ pname \in PersonNames
    /\ pres = Returns(None) /\ ppc = "new"
    /\ PipeInit /\ ItemIdle /\ DateIdle

Pers_person ==
    /\ ppc = "new"
    /\ pres' = person(pname)
    /\ ppc' = IF pres'.exc = "none" THEN "person" ELSE pres'.exc
    /\ UNCHANGED <<pname, pipeVars, itemVars, dateVars>>

Pers_authorship ==
    /\ ppc = "new"
    /\ pres' = authorship(pname)
    /\ ppc' = IF pres'.exc = "none" THEN "author" ELSE pres'.exc
    /\ UNCHANGED <<pname, pipeVars, itemVars, dateVars>>

Pers_editorship ==
    /\ ppc = "new"
    /\ pres' = editorship(pname)
    /\ ppc' = IF pres'.exc = "none" THEN "editor" ELSE pres'.exc
    /\ UNCHANGED <<pname, pipeVars, itemVars, dateVars>>

PersNext == Pers_person \/ Pers_authorship \/ Pers_editorship

SpecPerson == PersInit /\ [][PersNext]_vars

\* the name cut at its first comma
FirstComma == Find(pname, <<",">>)
BeforeComma == SubSeq(pname, 1, FirstComma - 1)
AfterComma == SubSeq(pname, FirstComma + 1, Len(pname))
\* the text after the first comma, up to a second comma if there is one
UpToNextComma ==
    LET j == Find(AfterComma, <<",">>)
    IN  IF j = 0 THEN AfterComma ELSE SubSeq(AfterComma, 1, j - 1)

\* the persName element a finished call produced, whether directly or wrapped
PersNameOf(r) == IF ppc = "person" THEN r.el ELSE r.el.kids[1]

\* C8 as stated: person(name) splits on the first comma only; surname is the
\* trimmed text before it, forename the whole trimmed text after it; persName
\* has exactly two children, surname first and forename second.
C8_AsStated ==
    (ppc \in {"person", "author", "editor"}) =>
        PersNameOf(pres).kids = <<createTextElement("surname", Strip(BeforeComma)),
                                  createTextElement("forename", Strip(AfterComma))>>

\* C8 amended: for a name that contains a comma, person(name) returns a
\* persName with exactly two children, forename first and surname second;
\* the surname is the trimmed text before the first comma and the forename
\* is the trimmed text between the first comma and the next one (the end of
\* the name if there is no other), so text after a second comma is dropped.
C8_PersonName ==
    (FirstComma # 0 /\ ppc # "new") =>
        /\ ppc \in {"person", "author", "editor"}
        /\ PersNameOf(pres) =
              [name  |-> "persName", attrs |-> <<>>, text |-> <<>>,
               kids  |-> <<createTextElement("forename", Strip(UpToNextComma)),
                           createTextElement("surname", Strip(BeforeComma))>>]

\* person has returned for a name with two commas
C8_Witness ==
    /\ ppc = "person" /\ FirstComma # 0
    /\ Find(AfterComma, <<",">>) # 0
    /\ Strip(UpToNextComma) # Strip(AfterComma)

----------------------------------------------------------------------------
(* class TeiFile: add_record *)

JOUR   == <<"J", "O", "U", "R">>
BOOK   == <<"B", "O", "O", "K">>
EDBOOK == <<"E", "D", "B", "O", "O", "K">>
EBOOK  == <<"E", "B", "O", "O", "K">>

\* add_record whose default case builds a Book
add_record_anyType(kv) ==
    IF Len(kv) = 0 \/ Len(kv[1]) < 2 THEN [exc |-> "IndexError", rec |-> NoItem, log |-> <<>>]
    ELSE LET r_type == Strip(kv[1][2])
             kind   == IF r_type = JOUR THEN "Journal" ELSE "Book"
             built  == BiblioItem_init(kind, kv)
         IN  [exc |-> built.exc, rec |-> built.obj, log |-> <<>>]

\* add_record up to "if record:": the record built (NoItem for None), the
\* exception raised, the console output.
add_record(kv) ==
    IF Len(kv) = 0 \/ Len(kv[1]) < 2 THEN [exc |-> "IndexError", rec |-> NoItem, log |-> <<>>]
    ELSE LET r_type == Strip(kv[1][2])
             kind   == IF r_type = JOUR THEN "Journal"
                       ELSE IF r_type \in {BOOK, EDBOOK, EBOOK} THEN "Book"
                       ELSE "None"
             built  == BiblioItem_init(kind, kv)
         IN  IF kind = "None"
             THEN [exc |-> "none", rec |-> NoItem,
                   log |-> <<"print: is not a supported RIS type.">>]
             ELSE [exc |-> built.exc, rec |-> built.obj, log |-> <<>>]

----------------------------------------------------------------------------
(* SpecItem: one record, from the field pairs of its lines to its           *)
(* biblStruct.  The pairs are what parse splits off lines "TAG  - value",   *)
(* so every value starts with the blank that follows the separator.        *)

MaxFields == 2

TypeCodes == {JOUR, BOOK, EDBOOK, EBOOK, <<"C", "H", "A", "P">>}

FieldPool ==
    {<<AU, <<" ", "S", "m", "i", "t", "h", ",", " ", "J">>>>,
     <<AU, <<" ", "P", "l", "a", "t", "o">>>>,
     <<A3, <<" ", "E", "d", ",", " ", "A">>>>,
     <<TI, <<" ", "I", "t", "'", "s">>>>,
     <<T1, <<" ", "A", "l", "t">>>>,
     <<T2, <<" ", "S", "e", "r">>>>,
     <<T3, <<" ", "S", "3">>>>,
     <<JO, <<" ", "J">>>>,
     <<SN, <<" ", "1", "2">>>>,
     <<DO, <<" ", "d", "o", "i", ":", " ", "1", "0", "/", "x">>>>,
     <<VL, <<" ", "1">>>>,
     <<SP, <<" ", "1", "0", "0", "-", "1", "1", "0">>>>,
     <<SP, <<" ", "1", "0", "0">>>>,
     <<SP, <<" ", "1", "0", "0", "-">>>>,
     <<SP, <<" ">>>>,
     <<EP, <<" ", "1", "1", "0">>>>,
     <<Y1, <<" ", "2", "0", "2", "0", "/", "5">>>>,
     <<Y1, <<" ">>>>,
     <<Y1, <<" ", "/", "5">>>>,
     <<Y1, <<" ", "2", "0", "2", "0", "/", "1", "3">>>>,
     <<Y1, <<" ", "9", "9", "9", "9", "9", "9", "9", "9", "9", "9", "/", "5">>>>,
     <<Y1, <<" ", "2", "0", "2", "0", "/", "5", "/", "1", "/", "S", "p", "r", "i", "n", "g">>>>,
     <<PY, <<" ", "1", "9", "9", "9">>>>,
     <<PB, <<" ", "X">>>>}

RECURSIVE FieldSeqs(_)
FieldSeqs(n) ==
    IF n = 0 THEN {<<>>}
    ELSE FieldSeqs(n - 1) \cup {Append(s, f) : s \in {q \in FieldSeqs(n - 1) : Len(q) = n - 1}, f \in FieldPool}

\* the calls of createElementFrom the classes make
FieldCalls ==
    {[name |-> "title",     keys |-> <<TI, T1>>, attrs |-> <<>>],
     [name |-> "title",     keys |-> <<T2, T3>>, attrs |-> <<"level", <<"s">>>>],
     [name |-> "title",     keys |-> <<JO, T2>>, attrs |-> <<"level", <<"j">>>>],
     [name |-> "pubPlace",  keys |-> <<CY>>,     attrs |-> <<>>],
     [name |-> "publisher", keys |-> <<PB>>,     attrs |-> <<>>],
     [name |-> "idno",      keys |-> <<SN>>,     attrs |-> <<"type", <<"I", "S", "B", "N">>>>],
     [name |-> "idno",      keys |-> <<SN>>,     attrs |-> <<"type", <<"I", "S", "S", "N">>>>],
     [name |-> "biblScope", keys |-> <<VL>>,     attrs |-> <<"unit", <<"v", "o", "l", "u", "m", "e">>>>],
     [name |-> "biblScope", keys |-> <<IS>>,     attrs |-> <<"unit", <<"i", "s", "s", "u", "e">>>>]}

NoCall == [name |-> "None", keys |-> <<>>, attrs |-> <<>>]

ItemInit ==
    /\ \E ty \in TypeCodes, fs \in FieldSeqs(MaxFields) :
           item_kv = <<<<TY, <<" ">> \o ty>>>> \o fs
    /\ item = NoItem /\ frag = Returns(None) /\ fcall = NoCall /\ ipc = "new"
    /\ PipeInit /\ DateIdle /\ PersIdle

Item_add_record ==
    /\ ipc = "new"
    /\ LET r == add_record(item_kv)
       IN  /\ item' = r.rec
           /\ frag' = [el |-> None, exc |-> r.exc, log |-> r.log]
           /\ ipc' = IF r.exc # "none" THEN "raised"
                     ELSE IF r.rec = NoItem THEN "skipped" ELSE "constructed"
    /\ UNCHANGED <<item_kv, fcall, pipeVars, dateVars, persVars>>

Item_toXML ==
    /\ ipc = "constructed"
    /\ frag' = BiblioItem_toXML(item)
    /\ ipc' = IF frag'.exc = "none" THEN "rendered" ELSE "raised"
    /\ UNCHANGED <<item_kv, item, fcall, pipeVars, dateVars, persVars>>

Item_createElementFrom ==
    /\ ipc = "constructed"
    /\ \E c \in FieldCalls :
           /\ fcall' = c
           /\ frag' = Returns(createElementFrom(item, c.name, c.keys, c.attrs))
    /\ ipc' = "field"
    /\ UNCHANGED <<item_kv, item, pipeVars, dateVars, persVars>>

ItemNext == Item_add_record \/ Item_toXML \/ Item_createElementFrom

SpecItem == ItemInit /\ [][ItemNext]_vars

----------------------------------------------------------------------------
(* Properties of one record (SpecItem) *)

\* what the input says about the record, read off the field pairs
InputType == Strip(item_kv[1][2])
InputIsBook == InputType \in {BOOK, EDBOOK, EBOOK}
InputIsJournal == InputType = JOUR
InputTags == {item_kv[i][1] : i \in 1..Len(item_kv)}
\* the trimmed value of the last pair that carries the tag
InputValue(tag) ==
    LET last == CHOOSE i \in 1..Len(item_kv) :
                    /\ item_kv[i][1] = tag
                    /\ \A j \in 1..Len(item_kv) : item_kv[j][1] = tag => j <= i
    IN  Strip(item_kv[last][2])

KidNames(el) == [i \in 1..Len(el.kids) |-> el.kids[i].name]
KidsNamed(el, n) == SelectSeq(el.kids, LAMBDA k : k.name = n)
\* the monogr child of the rendered biblStruct (None if there is none)
MonogrOf(el) == IF KidsNamed(el, "monogr") = <<>> THEN None ELSE KidsNamed(el, "monogr")[1]
ImprintOf(el) ==
    IF KidsNamed(MonogrOf(el), "imprint") = <<>> THEN None
    ELSE KidsNamed(MonogrOf(el), "imprint")[1]
PageScopes(el) ==
    SelectSeq(MonogrOf(el).kids,
              LAMBDA k : k.name = "biblScope" /\ k.attrs # <<>>
                         /\ k.attrs[1] = [k |-> "unit", v |-> <<"p", "a", "g", "e">>])

ToXMLCalled == ipc \in {"rendered", "raised"} /\ item # NoItem

\* every name that is rendered has a comma
NamesSplit ==
    /\ \A i \in 1..Len(item_kv) :
           item_kv[i][1] \in {AU, A1} => Find(item_kv[i][2], <<",">>) # 0
    /\ InputIsBook =>
           \A i \in 1..Len(item_kv) : item_kv[i][1] = A3 => Find(item_kv[i][2], <<",">>) # 0

\* C4: the children of a biblStruct are analytic, monogr, series in that
\* order, each at most once; a Book has no analytic child; a Journal has
\* both an analytic and a monogr child.
C4_ChildOrder ==
    (ipc = "rendered") =>
        /\ frag.el.name = "biblStruct"
        /\ InputIsBook =>
               KidNames(frag.el) \in {<<"monogr">>, <<"monogr", "series">>}
        /\ InputIsJournal =>
               KidNames(frag.el) \in {<<"analytic", "monogr">>,
                                      <<"analytic", "monogr", "series">>}
        /\ InputIsBook \/ InputIsJournal

\* a journal with a series title has been rendered: all three children
C4_Witness ==
    ipc = "rendered" /\ InputIsJournal /\ Len(frag.el.kids) = 3

\* C5: Journal.pages() with SP present and EP absent splits SP on "-"; with
\* at least two parts it emits biblScope unit=page, from = first part, to =
\* second part, text "{from}-{to}" with an en dash; with no end page it logs
\* a warning, emits no page element, and the rest of the record (monogr,
\* biblStruct) is still produced.
C5_AsStated ==
    (/\ ToXMLCalled /\ InputIsJournal /\ NamesSplit
     /\ date(item).exc = "none"
     /\ SP \in InputTags /\ EP \notin InputTags) =>
        LET parts == Split(InputValue(SP), <<"-">>)
        IN  /\ frag.exc = "none"
            /\ frag.el.name = "biblStruct"
            /\ MonogrOf(frag.el) # None
            /\ IF Len(parts) >= 2
               THEN PageScopes(frag.el) =
                      <<[name  |-> "biblScope",
                         attrs |-> <<[k |-> "unit", v |-> <<"p", "a", "g", "e">>],
                                     [k |-> "from", v |-> parts[1]],
                                     [k |-> "to", v |-> parts[2]]>>,
                         text  |-> <<>>,
                         kids  |-> <<createTextNode(parts[1] \o <<NDASH>> \o parts[2])>>]>>
               ELSE /\ PageScopes(frag.el) = <<>>
                    /\ \E i \in 1..Len(frag.log) :
                           frag.log[i] = "warning: Unable to parse SP as range"

\* the date string date() works on: Y1 if present, otherwise PY
InputDate == IF Y1 \in InputTags THEN InputValue(Y1) ELSE InputValue(PY)

\* C6: date() takes the date string from Y1 if present, otherwise from PY;
\* a string that cannot be parsed or rendered as an RIS date is not fatal:
\* a warning is logged, the imprint has no date element and the record is
\* still produced; a string that parses gives exactly one date element with
\* the display value as text and the attribute value as 'when'.
\* (Stated for non-empty date strings.)
C6_AsStated ==
    (/\ ToXMLCalled /\ NamesSplit
     /\ InputIsJournal => pages(item).exc = "none"
     /\ (Y1 \in InputTags \/ PY \in InputTags)
     /\ InputDate # <<>>) =>
        LET d      == RISDate_init(InputDate)
            parses == d.exc = "none" /\ toValue(d.obj).exc = "none"
            dates  == KidsNamed(ImprintOf(frag.el), "date")
        IN  /\ frag.exc = "none"
            /\ ImprintOf(frag.el) # None
            /\ IF parses
               THEN dates = <<[name  |-> "date",
                               attrs |-> <<[k |-> "when", v |-> toAttr(d.obj)]>>,
                               text  |-> <<>>,
                               kids  |-> <<createTextNode(toValue(d.obj).str)>>]>>
               ELSE /\ dates = <<>>
                    /\ \E i \in 1..Len(frag.log) :
                           frag.log[i] = "warning: Unable to parse Imprint date"

\* C9: for a Book with a series title (T2 or T3) the series element is a
\* child of the monogr element, after the imprint, and is never appended to
\* itself; for a Book with neither tag the monogr has no series child.
C9_AsStated ==
    (ipc = "rendered" /\ InputIsBook) =>
        LET m == MonogrOf(frag.el)
            n == Len(m.kids)
        IN  IF T2 \in InputTags \/ T3 \in InputTags
            THEN /\ n >= 2
                 /\ m.kids[n].name = "series"
                 /\ m.kids[n - 1].name = "imprint"
                 /\ Book_seriesParent(item) = "monogr"
            ELSE KidsNamed(m, "series") = <<>>

\* positions in the candidate list whose tag occurs in the record
PresentCandidates == {i \in 1..Len(fcall.keys) : fcall.keys[i] \in InputTags}
FirstCandidate ==
    fcall.keys[CHOOSE i \in PresentCandidates : \A j \in PresentCandidates : i <= j]

\* C10: createElementFrom selects the first tag of the candidate list, in
\* candidate-list order, that is present in the record, whatever the order
\* of the tags in the input; it returns one element whose text is that tag's
\* value after typography cleanup and which carries the optional attribute;
\* it returns nothing exactly when no candidate tag is present.
C10_FirstCandidate ==
    (ipc = "field") =>
        IF PresentCandidates = {} THEN frag.el = None
        ELSE frag.el =
               [name  |-> fcall.name,
                attrs |-> IF fcall.attrs = <<>> THEN <<>>
                          ELSE <<[k |-> fcall.attrs[1], v |-> fcall.attrs[2]]>>,
                text  |-> <<>>,
                kids  |-> <<createTextNode(fix_dumb_typography(InputValue(FirstCandidate)))>>]

\* the first index of the input at which the tag occurs
FirstIndexOf(tag) ==
    CHOOSE i \in 1..Len(item_kv) :
        item_kv[i][1] = tag /\ \A j \in 1..Len(item_kv) : item_kv[j][1] = tag => i <= j

\* an element was built from the first candidate although the second one
\* comes earlier in the input
C10_Witness ==
    /\ ipc = "field" /\ Len(fcall.keys) = 2
    /\ PresentCandidates = {1, 2}
    /\ FirstIndexOf(fcall.keys[2]) < FirstIndexOf(fcall.keys[1])
    /\ frag.el # None
    /\ InputValue(fcall.keys[1]) # InputValue(fcall.keys[2])

----------------------------------------------------------------------------
(* Spec: main() - TeiFile.parse over the source files, then TeiFile.toXML. *)
(* A file delivers its lines one by one; every line ends with a newline,   *)
(* except that the last line of a file may have none.                      *)

MaxFiles == 2
MaxLines == 4

separator == <<" ", " ", "-">>

\* raw lines as the file iterator yields them
RawLines ==
    {<<"T", "Y", " ", " ", "-", " ", "J", "O", "U", "R", "\n">>,
     <<"T", "Y", " ", " ", "-", " ", "B", "O", "O", "K", "\n">>,
     <<"T", "Y", " ", " ", "-", " ", "C", "H", "A", "P", "\n">>,
     <<"A", "U", " ", " ", "-", " ", "S", ",", " ", "J", "\n">>,
     <<"A", "U", " ", " ", "-", " ", "P", "\n">>,
     <<"S", "P", " ", " ", "-", " ", "1", "\n">>,
     <<"\n">>,
     <<"E", "R", " ", " ", "-", " ", "\n">>,
     <<"E", "R", " ", " ", "-">>}

Terminated(line) == line # <<>> /\ line[Len(line)] = "\n"

\* line[:-1].split(self.separator)
KvPairOf(line) == Split(SubSeq(line, 1, Len(line) - 1), separator)

RECURSIVE TotalLines(_)
TotalLines(files) == IF files = <<>> THEN 0 ELSE Len(Head(files)) + TotalLines(Tail(files))

CurrentFile == input[Len(input)]

\* the open file has another line: the previous one ended with a newline
MoreLines ==
    /\ TotalLines(input) < MaxLines
    /\ IF CurrentFile = <<>> THEN TRUE ELSE Terminated(CurrentFile[Len(CurrentFile)])

Init == PipeInit /\ ItemIdle /\ DateIdle /\ PersIdle

\* "with open(source_file) as f: kv_pairs = []"
Parse_open ==
    /\ pc = "parse" /\ fileNo < MaxFiles
    /\ fileNo' = fileNo + 1
    /\ input' = Append(input, <<>>)
    /\ kv_pairs' = <<>>
    /\ pc' = "file"
    /\ UNCHANGED <<records, calls, top, nextRec, exc, log, itemVars, dateVars, persVars>>

\* "except FileNotFoundError: logging.error(...)"
Parse_notFound ==
    /\ pc = "parse" /\ fileNo < MaxFiles
    /\ fileNo' = fileNo + 1
    /\ input' = Append(input, <<>>)
    /\ log' = Append(log, "error: Unable to find file")
    /\ UNCHANGED <<pc, kv_pairs, records, calls, top, nextRec, exc, itemVars, dateVars, persVars>>

\* a line whose kv_pair[0] is not "ER"
Parse_field ==
    /\ pc = "file" /\ MoreLines
    /\ \E line \in RawLines :
           /\ KvPairOf(line)[1] # ER
           /\ input' = [input EXCEPT ![Len(input)] = Append(@, line)]
           /\ kv_pairs' = Append(kv_pairs, KvPairOf(line))
    /\ UNCHANGED <<pc, fileNo, records, calls, top, nextRec, exc, log, itemVars, dateVars, persVars>>

\* a line whose kv_pair[0] is "ER": add_record(kv_pairs); kv_pairs = []
Parse_ER ==
    /\ pc = "file" /\ MoreLines
    /\ \E line \in RawLines :
           /\ KvPairOf(line)[1] = ER
           /\ input' = [input EXCEPT ![Len(input)] = Append(@, line)]
    /\ calls' = Append(calls, kv_pairs)
    /\ LET r == add_record(kv_pairs)
       IN  IF r.exc # "none"
           THEN /\ pc' = "aborted" /\ exc' = r.exc
                /\ UNCHANGED <<kv_pairs, records, log>>
           ELSE /\ records' = IF r.rec # NoItem THEN Append(records, r.rec) ELSE records
                /\ log' = log \o r.log
                /\ kv_pairs' = <<>>
                /\ UNCHANGED <<pc, exc>>
    /\ UNCHANGED <<fileNo, top, nextRec, itemVars, dateVars, persVars>>

\* the file is exhausted; the loop goes on to the next source file
Parse_eof ==
    /\ pc = "file"
    /\ pc' = "parse"
    /\ UNCHANGED <<fileNo, input, kv_pairs, records, calls, top, nextRec, exc, log,
                   itemVars, dateVars, persVars>>

\* parse returns; toXML creates the document
Parse_return ==
    /\ pc = "parse"
    /\ pc' = "toXML"
    /\ top' = <<>>
    /\ nextRec' = 1
    /\ UNCHANGED <<fileNo, input, kv_pairs, records, calls, exc, log,
                   itemVars, dateVars, persVars>>

\* "for record in self.records: child = record.toXML(doc); top.appendChild(child)"
ToXML_record ==
    /\ pc = "toXML" /\ nextRec <= Len(records)
    /\ LET r == BiblioItem_toXML(records[nextRec])
       IN  IF r.exc # "none"
           THEN /\ pc' = "aborted" /\ exc' = r.exc
                /\ log' = log \o r.log
                /\ UNCHANGED <<top, nextRec>>
           ELSE /\ top' = Append(top, r.el)
                /\ nextRec' = nextRec + 1
                /\ log' = log \o r.log
                /\ UNCHANGED <<pc, exc>>
    /\ UNCHANGED <<fileNo, input, kv_pairs, records, calls, itemVars, dateVars, persVars>>

\* "return doc"
ToXML_return ==
    /\ pc = "toXML" /\ nextRec > Len(records)
    /\ pc' = "done"
    /\ UNCHANGED <<fileNo, input, kv_pairs, records, calls, top, nextRec, exc, log,
                   itemVars, dateVars, persVars>>

Next ==
    \/ Parse_open \/ Parse_notFound \/ Parse_field \/ Parse_ER \/ Parse_eof
    \/ Parse_return \/ ToXML_record \/ ToXML_return

Spec == Init /\ [][Next]_vars

----------------------------------------------------------------------------
(* Properties of the run (Spec) *)

\* the type code of a finalized record is one add_record makes a record for
Supported(kv) == Strip(kv[1][2]) \in {JOUR, BOOK, EDBOOK, EBOOK}

\* the biblStruct of one finalized record, rendered on its own
ChildOf(kv) ==
    BiblioItem_toXML(
        BiblioItem_init(IF Strip(kv[1][2]) = JOUR THEN "Journal" ELSE "Book", kv).obj).el

RECURSIVE ExpectedChildren(_)
ExpectedChildren(cs) ==
    IF cs = <<>> THEN <<>>
    ELSE (IF Supported(Head(cs)) THEN <<ChildOf(Head(cs))>> ELSE <<>>)
         \o ExpectedChildren(Tail(cs))

\* C1: after parse and toXML the root listBibl has exactly one biblStruct
\* child for each finalized record whose type code is JOUR, BOOK, EDBOOK or
\* EBOOK, in the order the records were finalized (file order, then record
\* order within a file); a record with another type code contributes no
\* child and leaves the children of the other records as they are.
C1_Document ==
    (pc = "done") =>
        /\ top = ExpectedChildren(calls)
        /\ \A i \in 1..Len(top) : top[i].name = "biblStruct"

\* the document of a run that finalized a journal and a book holds both
C1_Witness ==
    /\ pc = "done" /\ Len(calls) = 2 /\ Len(top) = 2
    /\ top[1] # top[2]

\* a line without its line terminator, split at the separator
FieldsOf(line) ==
    Split(IF Terminated(line) THEN SubSeq(line, 1, Len(line) - 1) ELSE line, separator)

TagOf(line) == FieldsOf(line)[1]

\* the records of one file: the field pairs between consecutive ER lines
RECURSIVE RecordsOf(_, _)
RecordsOf(lines, acc) ==
    IF lines = <<>> THEN <<>>
    ELSE IF TagOf(Head(lines)) = ER THEN <<acc>> \o RecordsOf(Tail(lines), <<>>)
    ELSE RecordsOf(Tail(lines), Append(acc, FieldsOf(Head(lines))))

RECURSIVE RecordsOfFiles(_)
RecordsOfFiles(files) ==
    IF files = <<>> THEN <<>>
    ELSE RecordsOf(Head(files), <<>>) \o RecordsOfFiles(Tail(files))

\* C2: every line whose tag is ER finalizes exactly one record made of the
\* field pairs read since the previous ER line (or the start of the current
\* file), in line order; no record is finalized at any other point: the
\* add_record calls are, one for one, the ER-tagged lines read, and no field
\* pair is in two records or crosses a file boundary.
C2_AsStated == calls = RecordsOfFiles(input)

\* C3: no input aborts the run; no error state is reachable, and a run that
\* found no valid record returns the empty listBibl.
C3_AsStated ==
    /\ exc = "none" /\ pc # "aborted"
    /\ (pc = "done" /\ records = <<>>) => top = <<>>

====
